---- MODULE Spec2Model ----
(***************************************************************************)
(* Task-graph state machine of MyGO.                                       *)
(*                                                                         *)
(* Two entry points of the repository are modelled:                        *)
(*   program = "mygo"      StatePlannerAgent (src/mygo/agents/base.py)     *)
(*                         driven through its public methods;              *)
(*   program = "dialogue"  parse_dag_file / get_start_end_nodes            *)
(*                         (src/task_dag.py) feeding DialoguePlanner       *)
(*                         (src/dialogue.py).                              *)
(* A behaviour runs one of the two; the variables of the other keep their  *)
(* initial values.                                                         *)
(***************************************************************************)
EXTENDS Integers, Sequences, FiniteSets, TLC

VARIABLES
    program,        \* which entry point this behaviour runs
    \* ---- StatePlannerAgent (base.py:154-264)
    sp_graph,       \* self.graph: <<>> is None, <<g>> is the graph dict g
    current_state,  \* self.current_state: a node (identified by its id) or None
    visited_nodes,  \* self.visited_nodes
    sp_result,      \* the value returned by the last call on the agent
    \* ---- dialogue.py / task_dag.py
    pc,             \* position of the dialogue script
    lines,          \* the lines of the flow description read so far
    graph,          \* defaultdict(list): a function, its DOMAIN are the keys
    node_labels,    \* dict node id -> label
    start_nodes,    \* list(start_nodes) of the last get_start_end_nodes call
    end_nodes,      \* list(end_nodes) of the last get_start_end_nodes call
    current_node,   \* DialoguePlanner.current_node
    dp_result,      \* the value returned by the last planner call
    turn,           \* what the last iteration of main's while loop did
    \* ---- MyGOSystem (base.py:415-513)
    initialized,        \* MyGOSystem.initialized
    dialogue_history,   \* ChatAgent.dialogue_history
    sys_result,         \* the value returned by the last process_user_input
    \* ---- several planners over one graph object
    shared_graph,   \* the graph object every planner of the run is given
    planners,       \* the planner objects, in the order of their construction
    heap,           \* the list objects: heap[a] is the list at reference a
    calls,          \* per planner: its start node, then the targets it was called with
    \* ---- Agent (base.py:5-40)
    memory,             \* Agent.memory
    max_memory_size,    \* Agent.max_memory_size
    added               \* history: the items added since the memory was last emptied

vars == <<program, sp_graph, current_state, visited_nodes, sp_result,
          pc, lines, graph, node_labels, start_nodes, end_nodes,
          current_node, dp_result, turn, initialized, dialogue_history,
          sys_result, shared_graph, planners, heap, calls,
          memory, max_memory_size, added>>

mem_vars == <<memory, max_memory_size, added>>

sess_vars == <<shared_graph, planners, heap, calls>>

sys_vars == <<initialized, dialogue_history, sys_result>>

sp_vars == <<sp_graph, current_state, visited_nodes, sp_result>>

dlg_vars == <<pc, lines, graph, node_labels, start_nodes, end_nodes,
              current_node, dp_result>>

----------------------------------------------------------------------------
(* Bounds *)

MaxEdges == 2       \* longest edge list of a StatePlannerAgent graph
MaxVisited == 4     \* longest visited_nodes explored
MaxLines == 3       \* most lines of a flow description
MaxMemory == 2      \* largest max_memory_size explored
MaxAdds == 5        \* most add_to_memory calls between two clear_memory calls

----------------------------------------------------------------------------
(* Generic helpers *)

None == "None"

Range(s) == {s[i] : i \in 1..Len(s)}

SeqsUpTo(S, n) == UNION {[1..k -> S] : k \in 0..n}

DistinctSeqs(S) == {s \in SeqsUpTo(S, Cardinality(S)) :
                      \A i, j \in 1..Len(s) : i # j => s[i] # s[j]}

\* list(a_set): the elements in an order the set's hash layout decides
ListsOf(S) == {s \in DistinctSeqs(S) : Range(s) = S}

\* a / b as the pair <<a, b>>; Python's float division of two small ints
Ratio(a, b) == <<a, b>>

RatioEq(p, q) == p[1] * q[2] = q[1] * p[2]

RatioLeq(p, q) == p[1] * q[2] <= q[1] * p[2]

----------------------------------------------------------------------------
(* StatePlannerAgent: the graph dict {"nodes": [...], "edges": [...]} *)

NodeIds == {"A", "B", "C"}

EdgeRecs == [from : NodeIds, to : NodeIds]

\* graphs handed to initialize_with_graph: node ids are unique, an edge may
\* name an id that is not in the node list
SpGraphs == [nodes : DistinctSeqs(NodeIds), edges : SeqsUpTo(EdgeRecs, MaxEdges)]

G == sp_graph[1]

\* the first node of g["nodes"] whose id is node_id, or None (base.py:246-250)
FindNode(nodes, node_id) ==
    IF \E i \in 1..Len(nodes) : nodes[i] = node_id THEN node_id ELSE None

\* mutant: the first node is taken without looking at the incoming edges
find_start_node_first(g) == g.nodes[1]

\* mutant: without a node free of incoming edges no start node is returned
find_start_node_no_fallback(g) ==
    LET incoming_edges == {g.edges[i].to : i \in 1..Len(g.edges)}
        cands == {i \in 1..Len(g.nodes) : g.nodes[i] \notin incoming_edges}
    IN  IF cands # {}
        THEN g.nodes[CHOOSE i \in cands : \A j \in cands : i <= j]
        ELSE None

\* base.py:167-179; called with self.graph set and len(nodes) > 0
find_start_node(g) ==
    LET incoming_edges == {g.edges[i].to : i \in 1..Len(g.edges)}
        cands == {i \in 1..Len(g.nodes) : g.nodes[i] \notin incoming_edges}
    IN  IF cands # {}
        THEN g.nodes[CHOOSE i \in cands : \A j \in cands : i <= j]
        ELSE g.nodes[1]

\* base.py:162-165; nodes == [] makes find_start_node raise IndexError after
\* self.graph was assigned
initialize_with_graph(g) ==
    /\ program = "mygo"
    /\ sp_graph = <<>>          \* one initialisation per agent is explored
    /\ sp_graph' = <<g>>
    /\ IF Len(g.nodes) = 0
       THEN /\ sp_result' = [kind |-> "raise", error |-> "IndexError"]
            /\ UNCHANGED <<current_state, visited_nodes>>
       ELSE /\ current_state' = find_start_node(g)
            /\ visited_nodes' = <<find_start_node(g)>>
            /\ sp_result' = [kind |-> "return"]
    /\ UNCHANGED <<program, mem_vars, sess_vars, dlg_vars>>

\* "progress" of get_current_state (base.py:201)
StateProgress(visited, g) == Ratio(Len(visited), Len(g.nodes))

\* mutant: the history length is used where the distinct count belongs
TransitionProgress_len(visited, g) == Ratio(Len(visited), Len(g.nodes))

\* "progress" of transition_to (base.py:263)
TransitionProgress(visited, g) == Ratio(Cardinality(Range(visited)), Len(g.nodes))

\* the dict returned by get_current_state (base.py:194-202)
CurrentStateInfo ==
    IF current_state = None
    THEN [kind |-> "error", error |-> "No current state, graph not initialized"]
    ELSE [kind |-> "state",
          current_node |-> current_state,
          visited_nodes |-> visited_nodes,
          progress |-> StateProgress(visited_nodes, G)]

\* mutant: the query records the current node as visited once more
VisitedAfterQuery_append(visited, cur) == Append(visited, cur)

\* base.py:194-202 reads self.visited_nodes and does not write it
VisitedAfterQuery(visited, cur) == visited

get_current_state ==
    /\ program = "mygo"
    /\ sp_result' = CurrentStateInfo
    /\ visited_nodes' = VisitedAfterQuery(visited_nodes, current_state)
    /\ UNCHANGED <<program, mem_vars, sess_vars, sp_graph, current_state, dlg_vars>>

\* the possible_transitions list of get_possible_transitions (base.py:208-223):
\* one entry per edge out of the current node whose target is a node
RECURSIVE PossibleFrom(_, _, _)
PossibleFrom(edges, nodes, cur) ==
    IF edges = <<>> THEN <<>>
    ELSE LET e == Head(edges)
             rest == PossibleFrom(Tail(edges), nodes, cur)
         IN  IF e.from = cur /\ FindNode(nodes, e.to) # None
             THEN <<[edge |-> e, target_node |-> e.to]>> \o rest
             ELSE rest

PossibleTransitionsInfo ==
    IF current_state = None
    THEN [kind |-> "error", error |-> "No current state, graph not initialized"]
    ELSE [kind |-> "transitions",
          current_node |-> current_state,
          possible_transitions |-> PossibleFrom(G.edges, G.nodes, current_state)]

get_possible_transitions ==
    /\ program = "mygo"
    /\ sp_result' = PossibleTransitionsInfo
    /\ UNCHANGED <<program, mem_vars, sess_vars, sp_graph, current_state, visited_nodes, dlg_vars>>

\* mutant: the edge's source is not compared with the current node
valid_transition_any_source(g, cur, node_id) ==
    \E i \in 1..Len(g.edges) : g.edges[i].to = node_id

\* mutant: a node already in visited_nodes is refused
valid_transition_no_revisit(g, cur, node_id) ==
    /\ \E i \in 1..Len(g.edges) : g.edges[i].from = cur /\ g.edges[i].to = node_id
    /\ node_id \notin Range(visited_nodes)

\* mutant: any edge out of the current node validates the request, whatever
\* its target
valid_transition_from_only(g, cur, node_id) ==
    \E i \in 1..Len(g.edges) : g.edges[i].from = cur

\* base.py:235-240
valid_transition(g, cur, node_id) ==
    \E i \in 1..Len(g.edges) : g.edges[i].from = cur /\ g.edges[i].to = node_id

\* base.py:230-264
transition_to(node_id) ==
    /\ program = "mygo"
    /\ Len(visited_nodes) < MaxVisited
    /\ IF current_state = None
       THEN /\ sp_result' = [kind |-> "error",
                             error |-> "No current state, graph not initialized"]
            /\ UNCHANGED <<current_state, visited_nodes>>
       ELSE IF ~valid_transition(G, current_state, node_id)
       THEN /\ sp_result' = [kind |-> "error", error |-> "Invalid transition",
                             from |-> current_state, to |-> node_id]
            /\ UNCHANGED <<current_state, visited_nodes>>
       ELSE IF FindNode(G.nodes, node_id) = None
       THEN /\ sp_result' = [kind |-> "error", error |-> "Target node not found",
                             to |-> node_id]
            /\ UNCHANGED <<current_state, visited_nodes>>
       ELSE /\ current_state' = FindNode(G.nodes, node_id)
            /\ visited_nodes' = Append(visited_nodes, node_id)
            /\ sp_result' =
                 [kind |-> "moved",
                  previous_node_id |-> visited_nodes'[Len(visited_nodes') - 1],
                  current_node |-> current_state',
                  visited_nodes |-> visited_nodes',
                  progress |-> TransitionProgress(visited_nodes', G)]
    /\ UNCHANGED <<program, mem_vars, sess_vars, sp_graph, dlg_vars>>

SpInit ==
    /\ sp_graph = <<>>
    /\ current_state = None
    /\ visited_nodes = <<>>
    /\ sp_result = [kind |-> "none"]

SpNext ==
    \/ sp_graph = <<>> /\ \E g \in SpGraphs : initialize_with_graph(g)
    \/ get_current_state
    \/ get_possible_transitions
    \/ \E n \in NodeIds : transition_to(n)

----------------------------------------------------------------------------
(* Text: a str is the sequence of its characters *)

WS == {" "}

\* sub occurs in s at position i
OccursAt(s, sub, i) ==
    /\ i + Len(sub) - 1 <= Len(s)
    /\ \A k \in 1..Len(sub) : s[i + k - 1] = sub[k]

\* str.find, 1-based, 0 when absent
Find(s, sub) ==
    LET hits == {i \in 1..Len(s) : OccursAt(s, sub, i)}
    IN  IF hits = {} THEN 0 ELSE CHOOSE i \in hits : \A j \in hits : i <= j

\* sub in s
Contains(s, sub) == Find(s, sub) # 0

\* s.split(sep)
RECURSIVE Split(_, _)
Split(s, sep) ==
    LET i == Find(s, sep)
    IN  IF i = 0 THEN <<s>>
        ELSE <<SubSeq(s, 1, i - 1)>> \o Split(SubSeq(s, i + Len(sep), Len(s)), sep)

\* s.strip()
RECURSIVE Strip(_)
Strip(s) ==
    IF s = <<>> THEN s
    ELSE IF Head(s) \in WS THEN Strip(Tail(s))
    ELSE IF s[Len(s)] \in WS THEN Strip(SubSeq(s, 1, Len(s) - 1))
    ELSE s

Arrow == <<"-", "-", ">">>
LBracket == <<"[">>
RBracket == <<"]">>
Pipe == <<"|">>
AfterUser == <<"a", "f", "t", "e", "r", " ", "u", "s", "e", "r", " ">>
ColonSpace == <<":", " ">>

\* a dict as a function; d[k] = v
EmptyDict == <<>>

\* mutant: an existing entry is kept (dict.setdefault)
Put_keep_existing(d, k, v) ==
    [x \in (DOMAIN d) \cup {k} |-> IF x \in DOMAIN d THEN d[x] ELSE v]

Put(d, k, v) == [x \in (DOMAIN d) \cup {k} |-> IF x = k THEN v ELSE d[x]]

\* dict.get(k, default)
Get(d, k, default) == IF k \in DOMAIN d THEN d[k] ELSE default

----------------------------------------------------------------------------
(* task_dag.py *)

\* task_dag.py:3-10
get_node_label(line) ==
    IF ~Contains(line, LBracket)
    THEN [node |-> Strip(line), label |-> <<>>]
    ELSE [node |-> Strip(Split(line, LBracket)[1]),
          label |-> Strip(Split(Split(line, LBracket)[2], RBracket)[1])]

\* mutant: the text between the pipes is taken for the target fragment
TargetFragment_condition_as_target(to_node) ==
    IF Contains(to_node, Pipe)
    THEN LET parts == Split(to_node, Pipe)
         IN  [condition |-> AfterUser \o Strip(parts[2]) \o ColonSpace,
              to_node |-> Strip(parts[2])]
    ELSE [condition |-> <<>>, to_node |-> to_node]

\* mutant: the target is taken from the text after the second pipe
TargetFragment_after_second_pipe(to_node) ==
    IF Contains(to_node, Pipe)
    THEN LET parts == Split(to_node, Pipe)
         IN  [condition |-> AfterUser \o Strip(parts[2]) \o ColonSpace,
              to_node |-> Strip(parts[IF Len(parts) >= 3 THEN 3 ELSE Len(parts)])]
    ELSE [condition |-> <<>>, to_node |-> to_node]

\* task_dag.py:46-51: the condition prefix and the reduced target fragment
TargetFragment(to_node) ==
    IF Contains(to_node, Pipe)
    THEN LET parts == Split(to_node, Pipe)
         IN  [condition |-> AfterUser \o Strip(parts[2]) \o ColonSpace,
              to_node |-> Strip(parts[Len(parts)])]
    ELSE [condition |-> <<>>, to_node |-> to_node]

\* mutant: a target already in the source's sequence is not appended again
ParseEdge_merge_duplicates(g, labels, from_node, to_node0) ==
    LET src == get_node_label(from_node)
        labels1 == IF src.label # <<>> THEN Put(labels, src.node, src.label)
                   ELSE labels
        frag == TargetFragment(to_node0)
        tgt == get_node_label(frag.to_node)
        labels2 == IF tgt.label # <<>>
                   THEN Put(labels1, tgt.node, frag.condition \o tgt.label)
                   ELSE labels1
        old == Get(g, src.node, <<>>)
    IN  [graph |-> Put(g, src.node,
                       IF tgt.node \in Range(old) THEN old ELSE Append(old, tgt.node)),
         node_labels |-> labels2]

\* task_dag.py:38-59 for one edge line split into its two fragments
ParseEdge(g, labels, from_node, to_node0) ==
    LET src == get_node_label(from_node)
        labels1 == IF src.label # <<>> THEN Put(labels, src.node, src.label)
                   ELSE labels
        frag == TargetFragment(to_node0)
        tgt == get_node_label(frag.to_node)
        labels2 == IF tgt.label # <<>>
                   THEN Put(labels1, tgt.node, frag.condition \o tgt.label)
                   ELSE labels1
    IN  [graph |-> Put(g, src.node, Append(Get(g, src.node, <<>>), tgt.node)),
         node_labels |-> labels2]

\* task_dag.py:62-64
ParseDeclaration(g, labels, line) ==
    LET decl == get_node_label(line)
    IN  [graph |-> g,
         node_labels |-> IF decl.label # <<>>
                         THEN Put(labels, decl.node, decl.label)
                         ELSE labels]

\* the flow descriptions explored are built from these lines
LinePool ==
    { <<"A", "[", "X", "]">>,                                   \* A[X]
      <<"B">>,                                                  \* B
      <<" ">>,                                                  \* blank
      <<"A", "-", "-", ">", "B">>,                              \* A-->B
      <<"A", "[", "X", "]", " ", "-", "-", ">", " ",
        "B", "[", "Y", "]">>,                                   \* A[X] --> B[Y]
      <<"B", "-", "-", ">", "|", "c", "|", "C", "[", "Z", "]">>,  \* B-->|c|C[Z]
      <<"B", "-", "-", ">", "A">>,                              \* B-->A
      <<"C", "-", "-", ">", "A">>,                              \* C-->A
      <<"A", "-", "-", ">", "B", "-", "-", ">", "C">> }         \* A-->B-->C

\* mutant: the first two fragments are taken, the rest is dropped
Unpackable_first_two(parts) == Len(parts) >= 2

\* from_node, to_node = parts (task_dag.py:38) needs exactly two fragments
Unpackable(parts) == Len(parts) = 2

\* one iteration of the loop of parse_dag_file (task_dag.py:31-64)
ReadLine(raw) ==
    /\ program = "dialogue"
    /\ pc = "parse"
    /\ Len(lines) < MaxLines
    /\ lines' = Append(lines, raw)
    /\ LET line == Strip(raw)
       IN  IF line = <<>>
           THEN UNCHANGED <<pc, graph, node_labels, dp_result>>
           ELSE IF Contains(line, Arrow)
           THEN IF ~Unpackable(Split(line, Arrow))
                THEN \* from_node, to_node = ... raises; main's except ends the run
                     /\ pc' = "error"
                     /\ dp_result' = [kind |-> "raise", error |-> "ValueError"]
                     /\ UNCHANGED <<graph, node_labels>>
                ELSE LET r == ParseEdge(graph, node_labels,
                                        Split(line, Arrow)[1], Split(line, Arrow)[2])
                     IN  /\ graph' = r.graph
                         /\ node_labels' = r.node_labels
                         /\ UNCHANGED <<pc, dp_result>>
           ELSE LET r == ParseDeclaration(graph, node_labels, line)
                IN  /\ graph' = r.graph
                    /\ node_labels' = r.node_labels
                    /\ UNCHANGED <<pc, dp_result>>
    /\ UNCHANGED <<program, mem_vars, sess_vars, sp_vars, start_nodes, end_nodes, current_node>>

\* end of file: parse_dag_file returns (graph, node_labels) (task_dag.py:66)
ParseReturn ==
    /\ program = "dialogue"
    /\ pc = "parse"
    /\ pc' = "parsed"
    /\ UNCHANGED <<program, mem_vars, sess_vars, sp_vars, lines, graph, node_labels, start_nodes,
                   end_nodes, current_node, dp_result>>

\* task_dag.py:80-88
all_nodes(g) ==
    (DOMAIN g) \cup UNION {Range(g[source]) : source \in DOMAIN g}

destination_nodes(g) == UNION {Range(g[source]) : source \in DOMAIN g}

\* task_dag.py:91
StartNodeSet(g) == all_nodes(g) \ destination_nodes(g)

\* graph[node] on the defaultdict (task_dag.py:93): a missing key reads as []
Lookup(g, node) == Get(g, node, <<>>)

\* mutant: the read does not insert the missing key (a plain dict.get)
GraphAfterLookups_no_insert(g, nodes) == g

\* ... and is inserted by the read
GraphAfterLookups(g, nodes) ==
    [n \in (DOMAIN g) \cup nodes |-> IF n \in DOMAIN g THEN g[n] ELSE <<>>]

\* mutant: only the keys of the mapping are examined
EndNodeSet_keys_only(g) == {node \in DOMAIN g : g[node] = <<>>}

\* task_dag.py:93
EndNodeSet(g) == {node \in all_nodes(g) : Lookup(g, node) = <<>>}

\* main's call of get_start_end_nodes (dialogue.py:164, task_dag.py:68-95)
get_start_end_nodes ==
    /\ program = "dialogue"
    /\ pc = "parsed"
    /\ start_nodes' \in ListsOf(StartNodeSet(graph))
    /\ end_nodes' \in ListsOf(EndNodeSet(graph))
    /\ graph' = GraphAfterLookups(graph, all_nodes(graph))
    /\ pc' = "analyzed"
    /\ UNCHANGED <<program, mem_vars, sess_vars, sp_vars, lines, node_labels, current_node, dp_result>>

----------------------------------------------------------------------------
(* dialogue.py: DialoguePlanner *)

NoNode == <<"None">>

DlgIds == {<<"A">>, <<"B">>, <<"C">>}

\* dialogue.py:12-16, called at dialogue.py:171; start_nodes[0] of an empty
\* list raises IndexError, which main's except reports
DialoguePlannerInit ==
    /\ program = "dialogue"
    /\ pc = "analyzed"
    /\ graph' = GraphAfterLookups(graph, all_nodes(graph))
    /\ IF StartNodeSet(graph) = {}
       THEN /\ pc' = "error"
            /\ dp_result' = [kind |-> "raise", error |-> "IndexError"]
            /\ UNCHANGED current_node
       ELSE /\ \E l \in ListsOf(StartNodeSet(graph)) : current_node' = l[1]
            /\ pc' = "loop"
            /\ dp_result' = [kind |-> "return"]
    /\ UNCHANGED <<program, mem_vars, sess_vars, sp_vars, lines, node_labels, start_nodes, end_nodes>>

\* dialogue.py:21-22
get_next_nodes(g, cur) == Get(g, cur, <<>>)

\* dialogue.py:18-19
get_current_task(labels, cur) == Get(labels, cur, <<>>)

\* mutant: any key of the mapping is accepted as a target
MoveAllowed_any_key(g, cur, next_node) ==
    next_node \in DOMAIN g \/ next_node = cur

\* the test of dialogue.py:25
MoveAllowed(g, cur, next_node) ==
    next_node \in Range(get_next_nodes(g, cur)) \/ next_node = cur

\* dialogue.py:24-28
move_to_node(next_node) ==
    /\ program = "dialogue"
    /\ pc = "loop"
    /\ IF MoveAllowed(graph, current_node, next_node)
       THEN /\ current_node' = next_node
            /\ dp_result' = [kind |-> "bool", value |-> TRUE]
       ELSE /\ UNCHANGED current_node
            /\ dp_result' = [kind |-> "bool", value |-> FALSE]
    /\ UNCHANGED <<program, mem_vars, sess_vars, sp_vars, pc, lines, graph, node_labels,
                   start_nodes, end_nodes>>

DlgInit ==
    /\ pc = "parse"
    /\ lines = <<>>
    /\ graph = EmptyDict
    /\ node_labels = EmptyDict
    /\ start_nodes = <<>>
    /\ end_nodes = <<>>
    /\ current_node = NoNode
    /\ dp_result = [kind |-> "none"]

DlgNext ==
    \/ \E raw \in LinePool : ReadLine(raw)
    \/ ParseReturn
    \/ get_start_end_nodes
    \/ DialoguePlannerInit
    \/ \E n \in DlgIds : move_to_node(n)

----------------------------------------------------------------------------
(* dialogue.py: state_classifier and the while loop of main *)

UpperCase == <<"A", "B", "C", "D", "E", "F", "G", "H", "I", "J", "K", "L", "M",
               "N", "O", "P", "Q", "R", "S", "T", "U", "V", "W", "X", "Y", "Z">>

LowerCase == <<"a", "b", "c", "d", "e", "f", "g", "h", "i", "j", "k", "l", "m",
               "n", "o", "p", "q", "r", "s", "t", "u", "v", "w", "x", "y", "z">>

\* str.lower()
Lower(s) ==
    [i \in 1..Len(s) |->
        IF \E k \in 1..26 : UpperCase[k] = s[i]
        THEN LowerCase[CHOOSE k \in 1..26 : UpperCase[k] = s[i]]
        ELSE s[i]]

CueStay == <<"s", "t", "a", "y">>
CueOption1 == <<"o", "p", "t", "i", "o", "n", " ", "1">>
CueMove == <<"m", "o", "v", "e">>
CueOption2 == <<"o", "p", "t", "i", "o", "n", " ", "2">>

\* the f-string of dialogue.py:44-47 reads node_labels[current_node] and
\* node_labels[node] for every next node; a missing key raises KeyError
PromptBuildable(cur, next_nodes, labels) ==
    /\ cur \in DOMAIN labels
    /\ \A i \in 1..Len(next_nodes) : next_nodes[i] \in DOMAIN labels

\* mutant: the label is looked for among all labelled nodes, not next_nodes
state_classifier_any_label(decision, cur, next_nodes, labels) ==
    LET d == Lower(decision)
        hits == {n \in DOMAIN labels : Contains(d, Lower(labels[n]))}
    IN  IF Contains(d, CueStay) \/ Contains(d, CueOption1) THEN cur
        ELSE IF (Contains(d, CueMove) \/ Contains(d, CueOption2)) /\ hits # {}
        THEN CHOOSE n \in hits : TRUE
        ELSE cur

\* mutant: without a recognised cue the first next node is taken
state_classifier_default_first(decision, cur, next_nodes, labels) ==
    LET d == Lower(decision)
    IN  IF Contains(d, CueStay) \/ Contains(d, CueOption1) THEN cur
        ELSE IF Len(next_nodes) >= 1 THEN next_nodes[1]
        ELSE cur

\* dialogue.py:84-92: the node returned for the model's text decision
state_classifier(decision, cur, next_nodes, labels) ==
    LET d == Lower(decision)
        hits == {i \in 1..Len(next_nodes) :
                    Contains(d, Lower(labels[next_nodes[i]]))}
    IN  IF Contains(d, CueStay) \/ Contains(d, CueOption1) THEN cur
        ELSE IF Contains(d, CueMove) \/ Contains(d, CueOption2)
        THEN IF hits # {}
             THEN next_nodes[CHOOSE i \in hits : \A j \in hits : i <= j]
             ELSE IF Len(next_nodes) = 1 THEN next_nodes[1]
             ELSE cur
        ELSE cur

\* texts the decision model answers with
DecisionPool ==
    { <<"s", "t", "a", "y">>,                                   \* stay
      <<"o", "p", "t", "i", "o", "n", " ", "1">>,               \* option 1
      <<"m", "o", "v", "e">>,                                   \* move
      <<"m", "o", "v", "e", " ", "y">>,                         \* move y
      <<"M", "o", "v", "e", " ", "Z">>,                         \* Move Z
      <<"o", "p", "t", "i", "o", "n", " ", "2", " ", "y", " ", "z">>,  \* option 2 y z
      <<"s", "t", "a", "y", " ", "m", "o", "v", "e", " ", "y">>,  \* stay move y
      <<"m", "o", "v", "e", " ", "x">>,                         \* move x
      <<"N", "2">>,                                             \* N2
      <<>> }                                                    \* empty answer

\* the calls of one iteration that reach the model service (call_model,
\* dialogue.py:30-41): the farewell, the assistant, the user, the decision
CallFailures == {"none", "farewell", "assistant", "user", "decision"}

\* mutant: an empty list of next nodes is not noticed
Exhausted_never(next_nodes) == FALSE

\* dialogue.py:180
Exhausted(next_nodes) == next_nodes = <<>>

\* one iteration of the while loop of main (dialogue.py:175-266); fails names
\* the call_model call that raises, decision is the text the decision model
\* returns when it is reached
LoopIteration(fails, decision) ==
    /\ program = "dialogue"
    /\ pc = "loop"
    /\ LET next_nodes == get_next_nodes(graph, current_node)
       IN  IF Exhausted(next_nodes)
           THEN IF fails = "farewell"
                THEN /\ pc' = "error"
                     /\ turn' = [kind |-> "raise", call |-> "farewell"]
                     /\ UNCHANGED <<current_node, dp_result>>
                ELSE /\ pc' = "done"
                     /\ turn' = [kind |-> "closing"]
                     /\ UNCHANGED <<current_node, dp_result>>
           ELSE IF fails \in {"assistant", "user"}
           THEN /\ pc' = "error"
                /\ turn' = [kind |-> "raise", call |-> fails]
                /\ UNCHANGED <<current_node, dp_result>>
           ELSE IF ~PromptBuildable(current_node, next_nodes, node_labels)
           THEN /\ pc' = "error"
                /\ turn' = [kind |-> "raise", call |-> "prompt"]
                /\ UNCHANGED <<current_node, dp_result>>
           ELSE IF fails = "decision"
           THEN /\ pc' = "error"
                /\ turn' = [kind |-> "raise", call |-> "decision"]
                /\ UNCHANGED <<current_node, dp_result>>
           ELSE LET next_node == state_classifier(decision, current_node,
                                                  next_nodes, node_labels)
                IN  /\ turn' = [kind |-> "decided", decision |-> decision,
                                current_node |-> current_node,
                                next_nodes |-> next_nodes,
                                next_node |-> next_node]
                    /\ IF MoveAllowed(graph, current_node, next_node)
                       THEN /\ current_node' = next_node
                            /\ dp_result' = [kind |-> "bool", value |-> TRUE]
                       ELSE /\ UNCHANGED current_node
                            /\ dp_result' = [kind |-> "bool", value |-> FALSE]
                    /\ UNCHANGED pc
    /\ UNCHANGED <<program, mem_vars, sess_vars, sp_vars, lines, graph, node_labels, start_nodes,
                   end_nodes, sys_vars>>

\* parse_dag_file over a whole text without malformed edge lines
RECURSIVE ParseAll(_, _, _)
ParseAll(ls, g, labels) ==
    IF ls = <<>> THEN [graph |-> g, node_labels |-> labels]
    ELSE LET line == Strip(Head(ls))
             r == IF line = <<>> THEN [graph |-> g, node_labels |-> labels]
                  ELSE IF Contains(line, Arrow)
                  THEN ParseEdge(g, labels, Split(line, Arrow)[1],
                                 Split(line, Arrow)[2])
                  ELSE ParseDeclaration(g, labels, line)
         IN  ParseAll(Tail(ls), r.graph, r.node_labels)

\* the flow descriptions the loop is run on
FlowPool ==
    { \* N1[G] / N1-->N2[C] / N2-->|u|N3[F] / N3-->N4[W]
      << <<"N", "1", "[", "G", "]">>,
         <<"N", "1", "-", "-", ">", "N", "2", "[", "C", "]">>,
         <<"N", "2", "-", "-", ">", "|", "u", "|", "N", "3", "[", "F", "]">>,
         <<"N", "3", "-", "-", ">", "N", "4", "[", "W", "]">> >>,
      \* A[X]-->B[Y] / A-->C[Z] / B-->C
      << <<"A", "[", "X", "]", "-", "-", ">", "B", "[", "Y", "]">>,
         <<"A", "-", "-", ">", "C", "[", "Z", "]">>,
         <<"B", "-", "-", ">", "C">> >>,
      \* A[X]-->B[Y] / B-->B / B-->C[Z]
      << <<"A", "[", "X", "]", "-", "-", ">", "B", "[", "Y", "]">>,
         <<"B", "-", "-", ">", "B">>,
         <<"B", "-", "-", ">", "C", "[", "Z", "]">> >>,
      \* A[X]-->B[Y] / B-->B
      << <<"A", "[", "X", "]", "-", "-", ">", "B", "[", "Y", "]">>,
         <<"B", "-", "-", ">", "B">> >>,
      \* A[X]-->B[Y] / A-->C[Y]
      << <<"A", "[", "X", "]", "-", "-", ">", "B", "[", "Y", "]">>,
         <<"A", "-", "-", ">", "C", "[", "Y", "]">> >>,
      \* A[X]-->B / B-->C[Z]
      << <<"A", "[", "X", "]", "-", "-", ">", "B">>,
         <<"B", "-", "-", ">", "C", "[", "Z", "]">> >>,
      \* A[X]-->C[Z] / B[Y]-->C
      << <<"A", "[", "X", "]", "-", "-", ">", "C", "[", "Z", "]">>,
         <<"B", "[", "Y", "]", "-", "-", ">", "C">> >> }

\* main up to the while loop (dialogue.py:148-174): the text is parsed,
\* get_start_end_nodes is called, the planner is constructed
LoopInit ==
    /\ program = "dialogue"
    /\ lines \in FlowPool
    /\ LET parsed == ParseAll(lines, EmptyDict, EmptyDict)
       IN  /\ node_labels = parsed.node_labels
           /\ graph = GraphAfterLookups(parsed.graph, all_nodes(parsed.graph))
           /\ start_nodes \in ListsOf(StartNodeSet(parsed.graph))
           /\ end_nodes \in ListsOf(EndNodeSet(parsed.graph))
           /\ current_node = start_nodes[1]
    /\ pc = "loop"
    /\ dp_result = [kind |-> "return"]
    /\ turn = [kind |-> "none"]

----------------------------------------------------------------------------
(* base.py: GraphGeneratorAgent, DecisionMakerAgent, ChatAgent, MyGOSystem *)

MaxTurns == 3       \* most process_user_input turns explored

\* A name or a user message is read only through tests `cue in text.lower()`;
\* it is represented by the set of the cue words it contains.

\* the graph of GraphGeneratorAgent.process (base.py:62-151)
BuiltinGraph ==
    [nodes |-> <<"subtask_1", "subtask_2", "subtask_3", "subtask_4",
                 "subtask_5", "subtask_6", "subtask_7">>,
     edges |-> <<[from |-> "subtask_1", to |-> "subtask_2", type |-> "sequential"],
                 [from |-> "subtask_2", to |-> "subtask_3", type |-> "sequential"],
                 [from |-> "subtask_3", to |-> "subtask_4", type |-> "sequential"],
                 [from |-> "subtask_4", to |-> "subtask_5", type |-> "sequential"],
                 [from |-> "subtask_5", to |-> "subtask_6", type |-> "sequential"],
                 [from |-> "subtask_6", to |-> "subtask_7", type |-> "sequential"],
                 [from |-> "subtask_3", to |-> "subtask_5", type |-> "conditional"]>>,
     names |-> [n \in {"subtask_1", "subtask_2", "subtask_3", "subtask_4",
                       "subtask_5", "subtask_6", "subtask_7"} |->
                  CASE n = "subtask_1" -> {"greeting"}
                    [] n = "subtask_2" -> {"collect"}
                    [] n = "subtask_3" -> {"present"}
                    [] n = "subtask_4" -> {"selection"}
                    [] n = "subtask_5" -> {"confirm"}
                    [] n = "subtask_6" -> {"complete"}
                    [] n = "subtask_7" -> {"farewell"}]]

\* graphs given to the system's state planner through initialize_with_graph
CustomGraphs ==
    { \* the chain N1 -> N2 -> N3 -> N4
      [nodes |-> <<"N1", "N2", "N3", "N4">>,
       edges |-> <<[from |-> "N1", to |-> "N2", type |-> "sequential"],
                   [from |-> "N2", to |-> "N3", type |-> "conditional"],
                   [from |-> "N3", to |-> "N4", type |-> "sequential"]>>,
       names |-> [n \in {"N1", "N2", "N3", "N4"} |->
                    IF n = "N4" THEN {"farewell"} ELSE {"collect"}]],
      \* a farewell node that still has an outgoing edge
      [nodes |-> <<"A", "B", "C">>,
       edges |-> <<[from |-> "A", to |-> "B", type |-> "sequential"],
                   [from |-> "B", to |-> "C", type |-> "sequential"]>>,
       names |-> [n \in {"A", "B", "C"} |->
                    CASE n = "A" -> {"confirm"}
                      [] n = "B" -> {"farewell"}
                      [] n = "C" -> {"greeting"}]],
      \* a branch with both edge types and a cycle
      [nodes |-> <<"A", "B", "C">>,
       edges |-> <<[from |-> "A", to |-> "B", type |-> "sequential"],
                   [from |-> "A", to |-> "C", type |-> "conditional"],
                   [from |-> "B", to |-> "A", type |-> "sequential"]>>,
       names |-> [n \in {"A", "B", "C"} |->
                    CASE n = "A" -> {"present"}
                      [] n = "B" -> {"collect", "confirm"}
                      [] n = "C" -> {}]] }

SysIds == {"subtask_1", "subtask_2", "subtask_3", "subtask_4", "subtask_5",
           "subtask_6", "subtask_7", "N1", "N2", "N3", "N4", "A", "B", "C"}

\* user inputs
MsgPool == { {}, {"name"}, {"basic"}, {"premium"}, {"yes"}, {"contact", "proceed"} }

\* node.get("name", "").lower() of a node of g
NameOf(g, id) == IF "names" \in DOMAIN g /\ id \in DOMAIN g.names THEN g.names[id] ELSE {}

\* edge.get("type")
EdgeType(e) == IF "type" \in DOMAIN e THEN e.type ELSE None

\* base.py:388-412
select_next_transition(possible_transitions, preferred_type) ==
    LET typed == {i \in 1..Len(possible_transitions) :
                     EdgeType(possible_transitions[i].edge) = preferred_type}
    IN  IF preferred_type # None /\ typed # {}
        THEN [decision |-> "transition",
              next_node_id |->
                  possible_transitions[CHOOSE i \in typed :
                                          \A j \in typed : i <= j].target_node]
        ELSE IF possible_transitions # <<>>
        THEN [decision |-> "transition",
              next_node_id |-> possible_transitions[1].target_node]
        ELSE [decision |-> "stay", current_node_id |-> None]

\* mutant: the unsure case moves along the first transition
make_decision_default_move(last_user_message, current_node_id, name, possible_transitions) ==
    IF possible_transitions = <<>>
    THEN [decision |-> "stay", current_node_id |-> current_node_id]
    ELSE IF "farewell" \in name
    THEN [decision |-> "end", current_node_id |-> current_node_id]
    ELSE select_next_transition(possible_transitions, "sequential")

\* mutant: the farewell rule is tried before the list of possible
\* transitions is looked at
make_decision_farewell_first(last_user_message, current_node_id, name, possible_transitions) ==
    IF "farewell" \in name
    THEN [decision |-> "end", current_node_id |-> current_node_id]
    ELSE IF possible_transitions = <<>>
    THEN [decision |-> "stay", current_node_id |-> current_node_id]
    ELSE IF "collect" \in name /\ last_user_message \cap {"name", "contact"} # {}
    THEN select_next_transition(possible_transitions, "sequential")
    ELSE IF "present" \in name
            /\ last_user_message \cap {"basic", "premium", "enterprise"} # {}
    THEN select_next_transition(possible_transitions,
             IF "premium" \in last_user_message THEN "conditional"
             ELSE "sequential")
    ELSE IF "confirm" \in name
            /\ last_user_message \cap {"yes", "correct", "right", "proceed"} # {}
    THEN select_next_transition(possible_transitions, "sequential")
    ELSE [decision |-> "stay", current_node_id |-> current_node_id]

\* base.py:338-386; name is the current node's name
make_decision(last_user_message, current_node_id, name, possible_transitions) ==
    IF possible_transitions = <<>>
    THEN [decision |-> "stay", current_node_id |-> current_node_id]
    ELSE IF "collect" \in name /\ last_user_message \cap {"name", "contact"} # {}
    THEN select_next_transition(possible_transitions, "sequential")
    ELSE IF "present" \in name
            /\ last_user_message \cap {"basic", "premium", "enterprise"} # {}
    THEN select_next_transition(possible_transitions,
             IF "premium" \in last_user_message THEN "conditional"
             ELSE "sequential")
    ELSE IF "confirm" \in name
            /\ last_user_message \cap {"yes", "correct", "right", "proceed"} # {}
    THEN select_next_transition(possible_transitions, "sequential")
    ELSE IF "farewell" \in name
    THEN [decision |-> "end", current_node_id |-> current_node_id]
    ELSE [decision |-> "stay", current_node_id |-> current_node_id]

\* the reply of ChatAgent.generate_response_for_subtask (base.py:289-317),
\* named by the branch that produces it
ChatResponse(name) ==
    IF "greeting" \in name THEN "greeting"
    ELSE IF "collect" \in name THEN "collect"
    ELSE IF "present" \in name THEN "present"
    ELSE IF "selection" \in name THEN "selection"
    ELSE IF "confirm" \in name THEN "confirm"
    ELSE IF "complete" \in name THEN "complete"
    ELSE IF "farewell" \in name THEN "farewell"
    ELSE "other"

\* base.py:447-464
initialize_with_task ==
    /\ program = "mygo"
    /\ ~initialized
    /\ sp_graph' = <<BuiltinGraph>>
    /\ current_state' = find_start_node(BuiltinGraph)
    /\ visited_nodes' = <<find_start_node(BuiltinGraph)>>
    /\ sp_result' = [kind |-> "state",
                     current_node |-> current_state',
                     visited_nodes |-> visited_nodes',
                     progress |-> StateProgress(visited_nodes', BuiltinGraph)]
    /\ initialized' = TRUE
    /\ sys_result' = [kind |-> "initialized", initial_state |-> sp_result']
    /\ UNCHANGED <<program, mem_vars, sess_vars, dlg_vars, turn, dialogue_history>>

\* StatePlannerAgent.initialize_with_graph (base.py:162-165) called on the
\* system's state_planner, once, before the first turn
replace_graph(g) ==
    /\ program = "mygo"
    /\ initialized
    /\ sp_graph = <<BuiltinGraph>>
    /\ dialogue_history = <<>>
    /\ Len(visited_nodes) = 1
    /\ sp_graph' = <<g>>
    /\ current_state' = find_start_node(g)
    /\ visited_nodes' = <<find_start_node(g)>>
    /\ sp_result' = [kind |-> "return"]
    /\ UNCHANGED <<program, mem_vars, sess_vars, dlg_vars, turn, sys_vars>>

\* mutant: a stay is recorded as one more visit of the current node
VisitedAfterStay_append(visited, cur) == Append(visited, cur)

\* base.py:504-505: without a transition the planner is not called again
VisitedAfterStay(visited, cur) == visited

\* mutant: the input is recorded in the chat history before the system
\* notices that it has no task
HistoryAfterRejected_recorded(history, user_input) ==
    Append(history, [role |-> "user", content |-> user_input])

\* base.py:467-468 returns before the chat agent is called
HistoryAfterRejected(history, user_input) == history

\* base.py:466-513; previous_state and new_state hold the planner's own
\* visited_nodes list, so they show the list as it is when the call returns
process_user_input(user_input) ==
    /\ program = "mygo"
    /\ IF ~initialized
       THEN /\ sys_result' = [kind |-> "error",
                              error |-> "System not initialized with task"]
            /\ dialogue_history' =
                   HistoryAfterRejected(dialogue_history, user_input)
            /\ UNCHANGED sp_vars
       ELSE /\ Len(dialogue_history) < 2 * MaxTurns
            /\ LET name == NameOf(G, current_state)
                   possible == PossibleFrom(G.edges, G.nodes, current_state)
                   decision == make_decision(user_input, current_state, name,
                                             possible)
                   progress == StateProgress(visited_nodes, G)
               IN  /\ dialogue_history' = dialogue_history \o
                          <<[role |-> "user", content |-> user_input],
                            [role |-> "assistant", content |-> ChatResponse(name)]>>
                   /\ IF decision.decision = "transition"
                      THEN /\ transition_to(decision.next_node_id)
                           /\ sys_result' =
                                [kind |-> "turn",
                                 decision |-> decision,
                                 previous_state |->
                                     [current_node |-> current_state,
                                      visited_nodes |-> visited_nodes',
                                      progress |-> progress],
                                 new_state |-> sp_result']
                      ELSE /\ visited_nodes' =
                                VisitedAfterStay(visited_nodes, current_state)
                           /\ sp_result' = PossibleTransitionsInfo
                           /\ sys_result' =
                                [kind |-> "turn",
                                 decision |-> decision,
                                 previous_state |->
                                     [current_node |-> current_state,
                                      visited_nodes |-> visited_nodes',
                                      progress |-> progress],
                                 new_state |->
                                     [current_node |-> current_state,
                                      visited_nodes |-> visited_nodes',
                                      progress |-> progress]]
                           /\ UNCHANGED <<sp_graph, current_state>>
    /\ UNCHANGED <<program, mem_vars, sess_vars, dlg_vars, turn, initialized>>

\* the ids passed to the planner directly: the targets of the edges out of
\* the current node, and the current node itself (an id no edge leads to from
\* here; all other such ids get the same answer)
DirectTargets ==
    {G.edges[i].to : i \in {j \in 1..Len(G.edges) : G.edges[j].from = current_state}}
        \cup {current_state}

\* calls of the system's state_planner made before initialize_with_task
\* (afterwards process_user_input makes the two queries itself)
EarlyPlannerCall ==
    /\ ~initialized
    /\ \/ get_current_state
       \/ get_possible_transitions
       \/ transition_to("subtask_1")

\* the system and, beside it, direct calls of its planner
SysNext ==
    \/ initialize_with_task
    \/ \E g \in CustomGraphs : replace_graph(g)
    \/ \E m \in MsgPool : process_user_input(m)
    \/ (initialized /\ \E n \in DirectTargets : transition_to(n))
          /\ UNCHANGED <<turn, sys_vars>>
    \/ EarlyPlannerCall /\ UNCHANGED <<turn, sys_vars>>

\* no loop iteration has run
NoTurn == [kind |-> "none"]

\* MyGOSystem.__init__ (base.py:417-445) and ChatAgent.__init__ (base.py:269-271)
SysInit ==
    /\ initialized = FALSE
    /\ dialogue_history = <<>>
    /\ sys_result = [kind |-> "none"]

\* no planner has been constructed beside the program's own
NoSessions ==
    /\ shared_graph = None
    /\ planners = <<>>
    /\ heap = <<>>
    /\ calls = <<>>

----------------------------------------------------------------------------
(* Agent: the memory list (base.py:5-40) *)

\* the items given to add_to_memory
Items == {"a", "b"}

\* config.get("max_memory_size", 100) without the key (base.py:14)
DefaultMemorySize == 100

\* Agent.__init__ (base.py:13-14) of an agent whose memory is not explored
NoAgent ==
    /\ memory = <<>>
    /\ max_memory_size = DefaultMemorySize
    /\ added = <<>>

\* mutant: the newest item is dropped
Evict_newest(l) == SubSeq(l, 1, Len(l) - 1)

\* self.memory.pop(0) (base.py:36)
Evict(l) == Tail(l)

\* base.py:33-37
add_to_memory(item) ==
    /\ program = "agent"
    /\ Len(added) < MaxAdds
    /\ LET appended == Append(memory, item)
       IN  memory' = IF Len(appended) > max_memory_size
                     THEN Evict(appended)
                     ELSE appended
    /\ added' = Append(added, item)
    /\ UNCHANGED <<program, max_memory_size, sess_vars, sp_vars, dlg_vars,
                   turn, sys_vars>>

\* base.py:39-40
clear_memory ==
    /\ program = "agent"
    /\ memory' = <<>>
    /\ added' = <<>>
    /\ UNCHANGED <<program, max_memory_size, sess_vars, sp_vars, dlg_vars,
                   turn, sys_vars>>

\* Agent.__init__ (base.py:7-14) with config["max_memory_size"] = m >= 1
MemInit ==
    /\ program = "agent"
    /\ memory = <<>>
    /\ max_memory_size \in 1..MaxMemory
    /\ added = <<>>
    /\ SpInit
    /\ DlgInit
    /\ turn = NoTurn
    /\ SysInit
    /\ NoSessions

MemNext ==
    \/ \E item \in Items : add_to_memory(item)
    \/ clear_memory

MemSpec == MemInit /\ [][MemNext]_vars

----------------------------------------------------------------------------
Init ==
    /\ program \in {"mygo", "dialogue"}
    /\ SpInit
    /\ DlgInit
    /\ turn = NoTurn
    /\ SysInit
    /\ NoAgent
    /\ NoSessions

Next ==
    \/ SpNext /\ UNCHANGED <<turn, sys_vars>>
    \/ DlgNext /\ UNCHANGED <<turn, sys_vars>>

Spec == Init /\ [][Next]_vars

----------------------------------------------------------------------------
(* parse_dag_file alone, on flow descriptions with relabelled nodes *)

ParsePool ==
    { <<"A", "[", "X", "]">>,                                   \* A[X]
      <<"B">>,                                                  \* B
      <<" ">>,                                                  \* blank
      <<"A", "-", "-", ">", "B">>,                              \* A-->B
      <<"A", "[", "X", "]", " ", "-", "-", ">", " ",
        "B", "[", "Y", "]">>,                                   \* A[X] --> B[Y]
      <<"B", "-", "-", ">", " ", "|", "c", "|", " ",
        "A", "[", "Z", "]">>,                                   \* B--> |c| A[Z]
      <<"B", "[", "W", "]", "-", "-", ">", "A">>,               \* B[W]-->A
      <<"B", "-", "-", ">", "A", "[", "V", "]">>,               \* B-->A[V]
      <<"A", "-", "-", ">", "|", "c", "|", "d", "|",
        "B", "[", "V", "]">>,                                   \* A-->|c|d|B[V]
      <<"A", "-", "-", ">", "B", "-", "-", ">", "C">> }         \* A-->B-->C

ParseInit ==
    /\ program = "dialogue"
    /\ SpInit
    /\ DlgInit
    /\ turn = NoTurn
    /\ SysInit
    /\ NoAgent
    /\ NoSessions

ParseNext ==
    \/ (\E raw \in ParsePool : ReadLine(raw)) /\ UNCHANGED <<turn, sys_vars>>
    \/ ParseReturn /\ UNCHANGED <<turn, sys_vars>>

ParseSpec == ParseInit /\ [][ParseNext]_vars

----------------------------------------------------------------------------
(* The orchestrations: main's while loop and MyGOSystem *)

OrchInit ==
    \/ /\ LoopInit
       /\ SpInit
       /\ SysInit
       /\ NoAgent
       /\ NoSessions
    \/ /\ program = "mygo"
       /\ SpInit
       /\ DlgInit
       /\ turn = NoTurn
       /\ SysInit
       /\ NoAgent
       /\ NoSessions

OrchNext ==
    \/ \E f \in CallFailures, d \in DecisionPool : LoopIteration(f, d)
    \/ SysNext

OrchSpec == OrchInit /\ [][OrchNext]_vars

\* a MyGOSystem driven by user inputs alone: initialize_with_task and
\* process_user_input are the only calls made on it
TurnsInit ==
    /\ program = "mygo"
    /\ SpInit
    /\ DlgInit
    /\ turn = NoTurn
    /\ SysInit
    /\ NoAgent
    /\ NoSessions

TurnsNext ==
    \/ initialize_with_task
    \/ \E m \in MsgPool : process_user_input(m)

TurnsSpec == TurnsInit /\ [][TurnsNext]_vars

\* the while loop keeps iterating until it breaks or an exception ends it
OrchFair ==
    /\ OrchSpec
    /\ WF_vars(\E f \in CallFailures, d \in DecisionPool : LoopIteration(f, d))

----------------------------------------------------------------------------
(* Two planners constructed over one graph object, their calls interleaved *)

Sessions == 2

\* mutant: the list is one object kept at class level
AllocList_class_level(h) == 1

\* a list display ([] or [x]) creates a new list object
AllocList(h) == Len(h) + 1

\* the heap with list v at reference a
Store(h, a, v) ==
    [k \in 1..(IF a > Len(h) THEN a ELSE Len(h)) |-> IF k = a THEN v ELSE h[k]]

\* StatePlannerAgent(...) followed by initialize_with_graph(shared_graph)
\* (base.py:156-165): __init__ binds visited_nodes to a new empty list,
\* initialize_with_graph rebinds it to a new one-element list
NewStatePlanner ==
    /\ program = "mygo_sessions"
    /\ Len(planners) < Sessions
    /\ LET start == find_start_node(shared_graph)
           h1 == Store(heap, AllocList(heap), <<>>)
           ref == AllocList(h1)
       IN  /\ heap' = Store(h1, ref, <<start>>)
           /\ planners' = Append(planners, [current_state |-> start,
                                            visited_nodes |-> ref])
           /\ calls' = Append(calls, <<start>>)
    /\ UNCHANGED <<program, mem_vars, shared_graph, sp_vars, dlg_vars, turn, sys_vars>>

\* transition_to (base.py:230-264) called on planner i
SessionTransition(i, node_id) ==
    /\ program = "mygo_sessions"
    /\ Len(calls[i]) < MaxVisited
    /\ LET self == planners[i]
       IN  IF /\ valid_transition(shared_graph, self.current_state, node_id)
              /\ FindNode(shared_graph.nodes, node_id) # None
           THEN /\ planners' = [planners EXCEPT ![i].current_state =
                                    FindNode(shared_graph.nodes, node_id)]
                /\ heap' = [heap EXCEPT ![self.visited_nodes] = Append(@, node_id)]
           ELSE UNCHANGED <<planners, heap>>
    /\ calls' = [calls EXCEPT ![i] = Append(@, node_id)]
    /\ UNCHANGED <<program, mem_vars, shared_graph, sp_vars, dlg_vars, turn, sys_vars>>

\* the orders list(start_nodes) can have for the next planner: a set's order
\* follows the hashes of its strings, which are fixed within one interpreter
\* process and differ from one process to the next
StartOrders(sameProcess) ==
    {l \in ListsOf(StartNodeSet(shared_graph)) :
        (sameProcess /\ planners # <<>>) => l[1] = calls[1][1]}

\* DialoguePlanner(shared_graph, node_labels) (dialogue.py:12-16): the call
\* of get_start_end_nodes inserts the missing keys into the shared mapping.
\* With "dialogue_sessions" the planners live in one process, with
\* "dialogue_runs" each is built by its own run of the script on the same
\* flow description
NewDialoguePlanner ==
    /\ program \in {"dialogue_sessions", "dialogue_runs"}
    /\ Len(planners) < Sessions
    /\ shared_graph' = GraphAfterLookups(shared_graph, all_nodes(shared_graph))
    /\ \E l \in StartOrders(program = "dialogue_sessions") :
          /\ planners' = Append(planners, [current_node |-> l[1]])
          /\ calls' = Append(calls, <<l[1]>>)
    /\ UNCHANGED <<program, mem_vars, heap, sp_vars, dlg_vars, turn, sys_vars>>

\* move_to_node (dialogue.py:24-28) called on planner i
SessionMove(i, next_node) ==
    /\ program = "dialogue_sessions"
    /\ Len(calls[i]) < MaxVisited
    /\ IF MoveAllowed(shared_graph, planners[i].current_node, next_node)
       THEN planners' = [planners EXCEPT ![i].current_node = next_node]
       ELSE UNCHANGED planners
    /\ calls' = [calls EXCEPT ![i] = Append(@, next_node)]
    /\ UNCHANGED <<program, mem_vars, shared_graph, heap, sp_vars, dlg_vars, turn, sys_vars>>

\* the graph object is built once: a graph dict, or the mapping as
\* parse_dag_file returns it
SessInit ==
    /\ \/ program = "mygo_sessions" /\ shared_graph \in CustomGraphs
       \/ /\ program \in {"dialogue_sessions", "dialogue_runs"}
          /\ \E f \in FlowPool :
                shared_graph = ParseAll(f, EmptyDict, EmptyDict).graph
    /\ planners = <<>>
    /\ heap = <<>>
    /\ calls = <<>>
    /\ SpInit
    /\ DlgInit
    /\ turn = NoTurn
    /\ SysInit
    /\ NoAgent

SessNext ==
    \/ NewStatePlanner
    \/ /\ program = "mygo_sessions"
       /\ \E i \in 1..Len(planners) : \E n \in Range(shared_graph.nodes) :
             SessionTransition(i, n)
    \/ NewDialoguePlanner
    \/ /\ program = "dialogue_sessions"
       /\ \E i \in 1..Len(planners) : \E n \in all_nodes(shared_graph) :
             SessionMove(i, n)

SessSpec == SessInit /\ [][SessNext]_vars

----------------------------------------------------------------------------
(* Vocabulary of the properties *)

\* targets of the stored edges out of cur in a StatePlannerAgent graph
SpTargets(g, cur) == {e.to : e \in {x \in Range(g.edges) : x.from = cur}}

\* targets of the stored edges out of cur in the edge mapping
DlgTargets(g, cur) == IF cur \in DOMAIN g THEN Range(g[cur]) ELSE {}

RECURSIVE DistinctCount(_)
DistinctCount(s) ==
    IF s = <<>> THEN 0
    ELSE LET front == SubSeq(s, 1, Len(s) - 1)
         IN  DistinctCount(front) + (IF s[Len(s)] \in Range(front) THEN 0 ELSE 1)

SpReady == program = "mygo" /\ current_state # None

IsInvalidTransitionError(r, target) ==
    /\ r.kind = "error"
    /\ r.error = "Invalid transition"
    /\ r.to = target

\* C1: every successful transition of either planner goes from the current
\* node to a target of one of its stored outgoing edges or to the current
\* node itself; the cursor never lands on any other node.
C1_TransitionLegality ==
    [][ /\ \A n \in NodeIds :
             (SpReady /\ transition_to(n)) =>
                 /\ current_state' \in SpTargets(G, current_state) \cup {current_state}
                 /\ sp_result'.kind = "moved" =>
                        n \in SpTargets(G, current_state) \cup {current_state}
        /\ \A n \in DlgIds :
             move_to_node(n) =>
                 /\ current_node' \in DlgTargets(graph, current_node) \cup {current_node}
                 /\ dp_result'.value =>
                        n \in DlgTargets(graph, current_node) \cup {current_node}
      ]_vars

\* a successful move to another node has happened in a graph that also holds
\* an edge leaving some other node
C1_Witness ==
    /\ SpReady
    /\ sp_result.kind = "moved"
    /\ sp_result.previous_node_id # current_state
    /\ \E e \in Range(G.edges) : e.from # sp_result.previous_node_id

C3_SuccessfulTransition ==
    [][ \A n \in NodeIds :
          (SpReady /\ transition_to(n)
             /\ n \in SpTargets(G, current_state) /\ n \in Range(G.nodes)) =>
              /\ sp_result'.kind = "moved"
              /\ current_state' = n
              /\ visited_nodes' = visited_nodes \o <<n>>
              /\ sp_result'.current_node = n
              /\ sp_result'.visited_nodes = visited_nodes'
              /\ RatioEq(sp_result'.progress,
                         Ratio(DistinctCount(visited_nodes'), Len(G.nodes)))
      ]_vars

\* a second successful transition has returned, to a node seen before
C3_Witness ==
    /\ SpReady
    /\ sp_result.kind = "moved"
    /\ Len(visited_nodes) = 3
    /\ DistinctCount(visited_nodes) = 2
    /\ sp_result.progress[1] = 2

\* C4 as stated: a transition whose target is the current node succeeds in
\* every reachable planner state, self-loop edge or not.
C4_StayAlwaysLegal ==
    [][ /\ (SpReady /\ transition_to(current_state)) =>
               /\ sp_result'.kind = "moved"
               /\ current_state' = current_state
        /\ (pc = "loop" /\ move_to_node(current_node)) =>
               /\ dp_result' = [kind |-> "bool", value |-> TRUE]
               /\ current_node' = current_node
      ]_vars

\* C5: a transition to an already-visited legal successor succeeds and
\* lengthens visited by one, the progress it returns is distinct visited /
\* total nodes and so at most 1; A->B->A->B gives 2/total.
C5_RevisitCountedOnce ==
    [][ \A n \in NodeIds :
          (SpReady /\ transition_to(n)
             /\ n \in SpTargets(G, current_state) /\ n \in Range(visited_nodes)) =>
              /\ sp_result'.kind = "moved"
              /\ Len(visited_nodes') = Len(visited_nodes) + 1
              /\ DistinctCount(visited_nodes') = DistinctCount(visited_nodes)
              /\ RatioEq(sp_result'.progress,
                         Ratio(DistinctCount(visited_nodes), Len(G.nodes)))
              /\ RatioLeq(sp_result'.progress, Ratio(1, 1))
              /\ visited_nodes' = <<"A", "B", "A", "B">> =>
                     RatioEq(sp_result'.progress, Ratio(2, Len(G.nodes)))
      ]_vars

\* the walk A, B, A, B has been made
C5_Witness ==
    /\ SpReady
    /\ sp_result.kind = "moved"
    /\ visited_nodes = <<"A", "B", "A", "B">>

\* C6 as stated: the progress reported by get_current_state is the distinct
\* visited count over the node count, at most 1.
C6_StateProgressDistinct ==
    (SpReady /\ sp_result.kind = "state") =>
        /\ RatioEq(sp_result.progress,
                   Ratio(DistinctCount(visited_nodes), Len(G.nodes)))
        /\ RatioLeq(sp_result.progress, Ratio(1, 1))

\* C7: once the planner is constructed, current_node is a key of the edge
\* mapping after any sequence of transitions.
C7_CurrentNodeIsKey ==
    (program = "dialogue" /\ pc = "loop") => current_node \in DOMAIN graph

\* the planner has moved onto a node without outgoing edges
C7_Witness ==
    /\ program = "dialogue"
    /\ pc = "loop"
    /\ dp_result = [kind |-> "bool", value |-> TRUE]
    /\ get_next_nodes(graph, current_node) = <<>>
    /\ \E n \in DOMAIN graph : current_node \in Range(graph[n])

\* the node ids a line of the flow description refers to
RECURSIVE IdsOfLines(_)
IdsOfLines(ls) ==
    IF ls = <<>> THEN {}
    ELSE LET line == Strip(Head(ls))
             here == IF line = <<>> THEN {}
                     ELSE IF Contains(line, Arrow)
                     THEN {get_node_label(Split(line, Arrow)[1]).node,
                           get_node_label(
                               TargetFragment(Split(line, Arrow)[2]).to_node).node}
                     ELSE {get_node_label(line).node}
         IN  here \cup IdsOfLines(Tail(ls))

\* C8 as stated: the edge mapping parse_dag_file returns has an entry for
\* every node id the text refers to.
C8_EveryNodeHasEntry ==
    (program = "dialogue" /\ pc = "parsed") =>
        \A n \in IdsOfLines(lines) : n \in DOMAIN graph

\* the edges (source, target) stored in the mapping
EdgePairs(g) == UNION {{<<s, g[s][i]>> : i \in 1..Len(g[s])} : s \in DOMAIN g}

\* start nodes by definition: ids appearing as a source or a target, minus
\* the ids appearing as a target
RefStartNodes(g) ==
    LET sources == {p[1] : p \in EdgePairs(g)}
        targets == {p[2] : p \in EdgePairs(g)}
    IN  (sources \cup targets) \ targets

\* end nodes by definition: ids in the graph without an outgoing edge
RefEndNodes(g) ==
    LET targets == {p[2] : p \in EdgePairs(g)}
    IN  {n \in (DOMAIN g) \cup targets : ~\E p \in EdgePairs(g) : p[1] = n}

\* C9: get_start_end_nodes returns exactly the start nodes and the end nodes
\* of their definitions, each once; on the chain A --> B --> C these are
\* [A] and [C].
C9_StartEndNodes ==
    (program = "dialogue" /\ pc \in {"parsed", "analyzed", "loop"}) =>
        /\ StartNodeSet(graph) = RefStartNodes(graph)
        /\ EndNodeSet(graph) = RefEndNodes(graph)
        /\ pc = "analyzed" =>
              /\ start_nodes \in ListsOf(RefStartNodes(graph))
              /\ end_nodes \in ListsOf(RefEndNodes(graph))
              /\ EdgePairs(graph) = {<< <<"A">>, <<"B">> >>, << <<"B">>, <<"C">> >>} =>
                    /\ start_nodes = << <<"A">> >>
                    /\ end_nodes = << <<"C">> >>

\* get_start_end_nodes has returned for the chain A --> B --> C
C9_Witness ==
    /\ program = "dialogue"
    /\ pc = "analyzed"
    /\ EdgePairs(graph) = {<< <<"A">>, <<"B">> >>, << <<"B">>, <<"C">> >>}
    /\ start_nodes = << <<"A">> >>
    /\ end_nodes = << <<"C">> >>

\* C10 as stated: for the single line A[X], get_start_end_nodes returns
\* start_nodes = [A] and end_nodes = [A], and the planner finds a start node.
C10_IsolatedNode ==
    (program = "dialogue" /\ lines = << <<"A", "[", "X", "]">> >>) =>
        /\ pc = "analyzed" =>
              /\ start_nodes = << <<"A">> >>
              /\ end_nodes = << <<"A">> >>
        /\ pc # "error"

----------------------------------------------------------------------------
\* ids that are the target of some edge of a StatePlannerAgent graph
SpIncoming(g) == {e.to : e \in Range(g.edges)}

----------------------------------------------------------------------------
(* Properties of the orchestrations (OrchSpec) *)

\* ids of the target nodes listed by get_possible_transitions at node cur
ListedTargets(g, cur) ==
    {e.to : e \in {x \in Range(g.edges) : x.from = cur /\ x.to \in Range(g.nodes)}}

HasStayCue(d) == Contains(Lower(d), CueStay) \/ Contains(Lower(d), CueOption1)

HasMoveCue(d) == Contains(Lower(d), CueMove) \/ Contains(Lower(d), CueOption2)

\* some next node's label occurs in the decision text
NamesATarget(d, next_nodes, labels) ==
    \E i \in 1..Len(next_nodes) : Contains(Lower(d), Lower(labels[next_nodes[i]]))

\* the loop is in an iteration in which the decision model is asked and answers
DecisionAsked(f) ==
    /\ ~Exhausted(get_next_nodes(graph, current_node))
    /\ f \notin {"assistant", "user", "decision"}
    /\ PromptBuildable(current_node, get_next_nodes(graph, current_node), node_labels)

SysTurn == program = "mygo" /\ sys_result.kind = "turn"

\* C12: for every output of the decision source the Decision Procedure
\* returns one decision (stay, transition or end), and the target of a
\* transition is one of the legal next nodes it was given.
C12_DecisionIsLegal ==
    [][ /\ \A f \in CallFailures, d \in DecisionPool :
             (LoopIteration(f, d) /\ DecisionAsked(f)) =>
                 /\ turn'.kind = "decided"
                 /\ turn'.decision = d
                 /\ \/ turn'.next_node = current_node
                    \/ turn'.next_node \in Range(get_next_nodes(graph, current_node))
        /\ \A m \in MsgPool :
             (process_user_input(m) /\ initialized) =>
                 /\ sys_result'.decision.decision \in {"stay", "transition", "end"}
                 /\ sys_result'.decision.decision = "transition" =>
                        sys_result'.decision.next_node_id
                            \in ListedTargets(G, current_state)
      ]_vars

\* the classifier has moved the cursor to one of several next nodes
C12_Witness ==
    /\ program = "dialogue"
    /\ turn.kind = "decided"
    /\ Len(turn.next_nodes) = 2
    /\ turn.next_node = turn.next_nodes[2]
    /\ current_node = turn.next_node

\* C13 as stated: when the decision call fails, the decision is stay: the
\* planner keeps its node and the loop goes on.
C13_FailureYieldsStay ==
    [][ \A d \in DecisionPool :
          (LoopIteration("decision", d)
             /\ ~Exhausted(get_next_nodes(graph, current_node))
             /\ PromptBuildable(current_node, get_next_nodes(graph, current_node),
                                node_labels)) =>
              /\ pc' = "loop"
              /\ current_node' = current_node
      ]_vars

\* the rules of make_decision under which it moves or ends
SysCue(name, msg) ==
    \/ "collect" \in name /\ msg \cap {"name", "contact"} # {}
    \/ "present" \in name /\ msg \cap {"basic", "premium", "enterprise"} # {}
    \/ "confirm" \in name /\ msg \cap {"yes", "correct", "right", "proceed"} # {}
    \/ "farewell" \in name

\* C14: an output without stay cue and without move cue, or with a move cue
\* that selects no legal target, gives stay.
C14_NoCueStays ==
    [][ /\ \A f \in CallFailures, d \in DecisionPool :
             LET next_nodes == get_next_nodes(graph, current_node)
             IN  (LoopIteration(f, d) /\ DecisionAsked(f)
                    /\ \/ ~HasStayCue(d) /\ ~HasMoveCue(d)
                       \/ /\ HasMoveCue(d)
                          /\ ~NamesATarget(d, next_nodes, node_labels)
                          /\ Len(next_nodes) # 1) =>
                     /\ turn'.next_node = current_node
                     /\ current_node' = current_node
        /\ \A m \in MsgPool :
             (process_user_input(m) /\ initialized
                /\ ~SysCue(NameOf(G, current_state), m)) =>
                 /\ sys_result'.decision.decision = "stay"
                 /\ UNCHANGED <<current_state, visited_nodes>>
      ]_vars

\* a text without any cue was answered at a node with a single next node
C14_Witness ==
    /\ program = "dialogue"
    /\ turn.kind = "decided"
    /\ turn.decision = <<"N", "2">>
    /\ Len(turn.next_nodes) = 1
    /\ turn.next_node = turn.current_node
    /\ current_node = turn.current_node

\* C15 as stated: an iteration that finds no legal next node emits the
\* closing action and stops; no transition is applied then or later.
C15_ExhaustionEnds ==
    [][ /\ \A f \in CallFailures, d \in DecisionPool :
             (LoopIteration(f, d) /\ Exhausted(get_next_nodes(graph, current_node))) =>
                 /\ turn'.kind = "closing"
                 /\ pc' = "done"
                 /\ current_node' = current_node
        /\ (program = "dialogue" /\ pc = "done") => current_node' = current_node
        /\ \A m \in MsgPool :
             (process_user_input(m) /\ initialized
                /\ ListedTargets(G, current_state) = {}) =>
                 /\ sys_result'.decision.decision = "end"
                 /\ UNCHANGED <<current_state, visited_nodes>>
        /\ (SysTurn /\ sys_result.decision.decision = "end") =>
               UNCHANGED <<current_state, visited_nodes, dialogue_history>>
      ]_vars

\* the nodes that edges lead to from the nodes of S, S included
RECURSIVE ReachableFrom(_, _)
ReachableFrom(g, S) ==
    LET T == S \cup UNION {DlgTargets(g, n) : n \in S}
    IN  IF T = S THEN S ELSE ReachableFrom(g, T)

SinkReachable(g, n) == \E m \in ReachableFrom(g, {n}) : DlgTargets(g, m) = {}

LoopRuns == program = "dialogue" /\ pc = "loop"

LoopOver == pc \in {"done", "error"}

\* C16 as stated: the loop terminates whenever a node without outgoing edges
\* is reachable in the graph.
C16_AsStated == (LoopRuns /\ SinkReachable(graph, current_node)) ~> LoopOver

\* C16: the loop terminates once the planner is at a node without outgoing
\* edges.
C16_TerminatesAtSink ==
    (LoopRuns /\ DlgTargets(graph, current_node) = {}) ~> LoopOver

\* the loop has moved the planner to a node without outgoing edges and has
\* closed the dialogue there
C16_Witness ==
    /\ program = "dialogue"
    /\ pc = "done"
    /\ turn.kind = "closing"
    /\ current_node # start_nodes[1]
    /\ DlgTargets(graph, current_node) = {}

\* C17: a turn whose decision is stay leaves current_node and visited as
\* they were before the turn.
C17_StayLeavesPlanner ==
    [][ /\ \A f \in CallFailures, d \in DecisionPool :
             (LoopIteration(f, d) /\ DecisionAsked(f)
                /\ turn'.next_node = current_node) =>
                 /\ current_node' = current_node
                 /\ graph' = graph
                 /\ pc' = "loop"
        /\ \A m \in MsgPool :
             (process_user_input(m) /\ initialized
                /\ sys_result'.decision.decision = "stay") =>
                 /\ current_state' = current_state
                 /\ visited_nodes' = visited_nodes
                 /\ sys_result'.new_state.current_node = current_state
                 /\ sys_result'.new_state.visited_nodes = visited_nodes
      ]_vars

\* a stay turn was processed after the planner had moved
C17_Witness ==
    /\ SysTurn
    /\ sys_result.decision.decision = "stay"
    /\ Len(visited_nodes) >= 2
    /\ ListedTargets(G, current_state) # {}

\* C18 as stated: after a turn whose decision is end no further turn is
\* processed.
C18_EndStops ==
    [][ (SysTurn /\ sys_result.decision.decision = "end") =>
            /\ \A m \in MsgPool : ~process_user_input(m)
            /\ dialogue_history' = dialogue_history
      ]_vars

\* the flow N1[G] / N1-->N2[C] / N2-->|u|N3[F] / N3-->N4[W]
LinearFlow == CHOOSE f \in FlowPool : f[1] = <<"N", "1", "[", "G", "]">>

\* the same chain as a graph dict
LinearGraph == CHOOSE g \in CustomGraphs : g.nodes = <<"N1", "N2", "N3", "N4">>

RECURSIVE AloneSp(_, _)
AloneSp(g, cs) ==
    IF Len(cs) <= 1
    THEN [current_state |-> find_start_node(g),
          visited_nodes |-> <<find_start_node(g)>>]
    ELSE LET before == AloneSp(g, SubSeq(cs, 1, Len(cs) - 1))
             node_id == cs[Len(cs)]
         IN  IF node_id \in SpTargets(g, before.current_state)
                /\ node_id \in Range(g.nodes)
             THEN [current_state |-> node_id,
                   visited_nodes |-> Append(before.visited_nodes, node_id)]
             ELSE before

\* the node one DialoguePlanner alone is at after the calls cs
RECURSIVE AloneDp(_, _)
AloneDp(g, cs) ==
    IF Len(cs) = 1 THEN cs[1]
    ELSE LET before == AloneDp(g, SubSeq(cs, 1, Len(cs) - 1))
             next_node == cs[Len(cs)]
         IN  IF next_node \in DlgTargets(g, before) \/ next_node = before
             THEN next_node
             ELSE before

\* C20: with two planners over one graph and their calls interleaved, each
\* planner's current node and visited list are what its own calls alone give.
C20_SessionIsolation ==
    \A i \in 1..Len(planners) :
        /\ program = "mygo_sessions" =>
              /\ planners[i].current_state =
                     AloneSp(shared_graph, calls[i]).current_state
              /\ heap[planners[i].visited_nodes] =
                     AloneSp(shared_graph, calls[i]).visited_nodes
        /\ program = "dialogue_sessions" =>
              planners[i].current_node = AloneDp(shared_graph, calls[i])

\* both planners have moved, to different nodes and by different histories
C20_Witness ==
    /\ program = "mygo_sessions"
    /\ Len(planners) = 2
    /\ planners[1].current_state # planners[2].current_state
    /\ Len(heap[planners[1].visited_nodes]) >= 3
    /\ Len(heap[planners[2].visited_nodes]) = 2
    /\ heap[planners[1].visited_nodes][2] # heap[planners[2].visited_nodes][2]

\* parse_dag_file has returned
Parsed == program = "dialogue" /\ pc \in {"parsed", "analyzed", "loop"}

\* C21 as stated: once parse_dag_file has returned, no analyzer or planner
\* operation changes the edge mapping, its set of keys, or the label mapping.
C21_GraphImmutable ==
    [][ Parsed => /\ graph' = graph
                  /\ DOMAIN graph' = DOMAIN graph
                  /\ node_labels' = node_labels
      ]_vars

\* the start node planner i was initialised to
StartOf(i) == calls[i][1]

\* C22 as stated: two planner initialisations on the same Graph Model select
\* the same start node.
C22_SameStart ==
    Len(planners) = 2 => StartOf(1) = StartOf(2)

\* the number of arrow tokens in a line
ArrowCount(line) == Cardinality({i \in 1..Len(line) : OccursAt(line, Arrow, i)})

\* C23: a line with the arrow token that does not split into exactly two
\* fragments makes parse_dag_file fail at that line; the parse never returns
\* a Graph Model afterwards, and the line is not skipped.
C23_FailFast ==
    [][ /\ \A raw \in ParsePool :
             (ReadLine(raw) /\ ArrowCount(raw) >= 2) =>
                 /\ pc' = "error"
                 /\ dp_result' = [kind |-> "raise", error |-> "ValueError"]
        /\ pc = "error" => pc' \notin {"parse", "parsed"}
        /\ pc' = "parsed" => \A i \in 1..Len(lines) : ArrowCount(lines[i]) <= 1
      ]_vars

\* the parse failed at a line with two arrows after an edge had been read
C23_Witness ==
    /\ pc = "error"
    /\ dp_result = [kind |-> "raise", error |-> "ValueError"]
    /\ Len(lines) >= 2
    /\ ArrowCount(lines[Len(lines)]) = 2
    /\ graph # EmptyDict

\* the lines read so far were all accepted
Parsing == program = "dialogue" /\ pc \in {"parse", "parsed"}

IsEdgeLine(line) == ArrowCount(line) = 1

\* source, target and condition prefix of an edge line
EdgeOf(line) ==
    LET parts == Split(Strip(line), Arrow)
        frag == TargetFragment(parts[2])
    IN  [from |-> get_node_label(parts[1]),
         to |-> get_node_label(frag.to_node),
         condition |-> frag.condition]

\* the labels a line assigns, in the order of the assignments
LabelWrites(line) ==
    IF Strip(line) = <<>> THEN <<>>
    ELSE IF IsEdgeLine(line)
    THEN LET e == EdgeOf(line)
         IN  (IF e.from.label # <<>>
              THEN <<[node |-> e.from.node, label |-> e.from.label]>> ELSE <<>>)
             \o (IF e.to.label # <<>>
                 THEN <<[node |-> e.to.node, label |-> e.condition \o e.to.label]>>
                 ELSE <<>>)
    ELSE LET d == get_node_label(Strip(line))
         IN  IF d.label # <<>> THEN <<[node |-> d.node, label |-> d.label]>>
             ELSE <<>>

RECURSIVE AllLabelWrites(_)
AllLabelWrites(ls) ==
    IF ls = <<>> THEN <<>>
    ELSE AllLabelWrites(SubSeq(ls, 1, Len(ls) - 1)) \o LabelWrites(ls[Len(ls)])

\* the labels the edges into node declare, in line order
InLabels(ls, node) ==
    LET idx == {i \in 1..Len(ls) : /\ IsEdgeLine(ls[i])
                                   /\ EdgeOf(ls[i]).to.node = node
                                   /\ EdgeOf(ls[i]).to.label # <<>>}
    IN  [last |-> IF idx = {} THEN 0 ELSE CHOOSE i \in idx : \A j \in idx : j <= i,
         any |-> idx # {}]

LabelledIds(ls) == {AllLabelWrites(ls)[i].node : i \in 1..Len(AllLabelWrites(ls))}

\* C24 as stated: a node's label is the one declared by the most recently
\* parsed edge into it, whatever other lines name the node.
C24_AsStated ==
    Parsing =>
        \A node \in LabelledIds(lines) :
            InLabels(lines, node).any =>
                LET e == EdgeOf(lines[InLabels(lines, node).last])
                IN  Get(node_labels, node, <<>>) = e.condition \o e.to.label

\* C24: a node's label is the last label any line assigned to it: an edge
\* into it (with the condition prefix), an edge out of it whose source
\* fragment carries a label, or a standalone declaration; a line that names
\* the node without a label does not replace it.
C24_LastWriteWins ==
    Parsing =>
        LET ws == AllLabelWrites(lines)
        IN  /\ DOMAIN node_labels = LabelledIds(lines)
            /\ \A node \in LabelledIds(lines) :
                 LET idx == {i \in 1..Len(ws) : ws[i].node = node}
                 IN  node_labels[node] =
                         ws[CHOOSE i \in idx : \A j \in idx : j <= i].label

\* a label declared by an edge into A was replaced by a standalone
\* declaration of A
C24_Witness ==
    /\ Parsing
    /\ Len(lines) = 3
    /\ lines[1] = <<"B", "-", "-", ">", "A", "[", "V", "]">>
    /\ lines[2] = <<"A", "[", "X", "]">>
    /\ lines[3] = <<"A", "-", "-", ">", "B">>
    /\ Get(node_labels, <<"A">>, <<>>) = <<"X">>

\* the current node or one of its next nodes has no label
LabelMissing ==
    \/ current_node \notin DOMAIN node_labels
    \/ \E n \in Range(get_next_nodes(graph, current_node)) : n \notin DOMAIN node_labels

\* C25 as stated: with an unlabelled current or next node the current-task
\* query gives the empty label and the decision round ends with a decision.
C25_UnlabelledDecides ==
    [][ \A f \in CallFailures, d \in DecisionPool :
          (LoopIteration(f, d) /\ LabelMissing
             /\ ~Exhausted(get_next_nodes(graph, current_node))
             /\ f \notin {"assistant", "user", "decision"}) =>
              /\ current_node \notin DOMAIN node_labels =>
                     get_current_task(node_labels, current_node) = <<>>
              /\ turn'.kind = "decided"
              /\ pc' = "loop"
      ]_vars

\* C26: current_node and visited change only in a step of the transition
\* operation (or of the initialisation); the queries and the decision
\* procedure leave them as they are.
C26_OnlyTransitionChanges ==
    [][ /\ (current_state' # current_state \/ visited_nodes' # visited_nodes) =>
              \/ sp_graph = <<>> /\ sp_graph' # <<>>
              \/ /\ sp_result'.kind = "moved"
                 /\ current_state' = sp_result'.current_node
                 /\ visited_nodes' = Append(visited_nodes, current_state')
        /\ sp_result'.kind \in {"state", "transitions"} =>
              UNCHANGED <<current_state, visited_nodes, sp_graph>>
        /\ (pc = "loop" /\ current_node' # current_node) =>
              /\ dp_result' = [kind |-> "bool", value |-> TRUE]
              /\ current_node' \in DlgTargets(graph, current_node)
      ]_vars

\* the current state was queried after the planner had moved
C26_Witness ==
    /\ SpReady
    /\ sp_result.kind = "state"
    /\ Len(visited_nodes) >= 2
    /\ sp_result.visited_nodes = visited_nodes
    /\ sp_result.current_node = current_state

\* C27 as stated: with exactly one next node and a move cue in the text the
\* Decision Procedure selects that node, whatever else the text contains.
C27_SingleSuccessorMoves ==
    [][ \A f \in CallFailures, d \in DecisionPool :
          LET next_nodes == get_next_nodes(graph, current_node)
          IN  (LoopIteration(f, d) /\ DecisionAsked(f)
                 /\ HasMoveCue(d) /\ Len(next_nodes) = 1) =>
                  /\ turn'.next_node = next_nodes[1]
                  /\ current_node' = next_nodes[1]
      ]_vars

\* positions in next_nodes of the nodes whose label occurs in the text
Matches(d, next_nodes, labels) ==
    {i \in 1..Len(next_nodes) : Contains(Lower(d), Lower(labels[next_nodes[i]]))}

\* positions in possible of the transitions of the preferred type
Typed(possible, preferred_type) ==
    {i \in 1..Len(possible) : EdgeType(possible[i].edge) = preferred_type}

\* the edge type make_decision prefers for a message at a node named name
PreferredType(name, msg) ==
    IF "collect" \in name /\ msg \cap {"name", "contact"} # {} THEN "sequential"
    ELSE IF "present" \in name /\ "premium" \in msg THEN "conditional"
    ELSE "sequential"

\* C28 as stated: with a move cue and matching targets the first matching
\* target in the outgoing-edge sequence is selected; select_next_transition
\* returns the first transition of the preferred type, else the first one.
C28_FirstMatchWins ==
    [][ /\ \A f \in CallFailures, d \in DecisionPool :
             LET next_nodes == get_next_nodes(graph, current_node)
                 m == Matches(d, next_nodes, node_labels)
             IN  (LoopIteration(f, d) /\ DecisionAsked(f)
                    /\ HasMoveCue(d) /\ m # {}) =>
                     turn'.next_node =
                         next_nodes[CHOOSE i \in m : \A j \in m : i <= j]
        /\ \A msg \in MsgPool :
             LET possible == PossibleFrom(G.edges, G.nodes, current_state)
                 t == Typed(possible, PreferredType(NameOf(G, current_state), msg))
             IN  (process_user_input(msg) /\ initialized
                    /\ sys_result'.decision.decision = "transition") =>
                     sys_result'.decision.next_node_id =
                         IF t # {}
                         THEN possible[CHOOSE i \in t : \A j \in t : i <= j].target_node
                         ELSE possible[1].target_node
      ]_vars

\* the same for the texts without a stay cue, and for select_next_transition
TieBreakWithoutStayCue ==
    [][ /\ \A f \in CallFailures, d \in DecisionPool :
             LET next_nodes == get_next_nodes(graph, current_node)
                 m == Matches(d, next_nodes, node_labels)
             IN  (LoopIteration(f, d) /\ DecisionAsked(f)
                    /\ HasMoveCue(d) /\ ~HasStayCue(d) /\ m # {}) =>
                     turn'.next_node =
                         next_nodes[CHOOSE i \in m : \A j \in m : i <= j]
        /\ \A msg \in MsgPool :
             LET possible == PossibleFrom(G.edges, G.nodes, current_state)
                 t == Typed(possible, PreferredType(NameOf(G, current_state), msg))
             IN  (process_user_input(msg) /\ initialized
                    /\ sys_result'.decision.decision = "transition") =>
                     sys_result'.decision.next_node_id =
                         IF t # {}
                         THEN possible[CHOOSE i \in t : \A j \in t : i <= j].target_node
                         ELSE possible[1].target_node
      ]_vars

\* the targets of the edge lines out of source, in line order
RECURSIVE EdgeTargets(_, _)
EdgeTargets(ls, source) ==
    IF ls = <<>> THEN <<>>
    ELSE LET line == ls[Len(ls)]
             front == EdgeTargets(SubSeq(ls, 1, Len(ls) - 1), source)
         IN  IF IsEdgeLine(line) /\ EdgeOf(line).from.node = source
             THEN Append(front, EdgeOf(line).to.node)
             ELSE front

SourceIds(ls) == {EdgeOf(ls[i]).from.node : i \in {j \in 1..Len(ls) : IsEdgeLine(ls[j])}}

\* C29: a node's outgoing-edge sequence lists the targets of its edge lines
\* in the order of the lines, one entry per line, duplicates kept, and the
\* legal-next query returns that sequence.
C29_DeclarationOrder ==
    Parsing =>
        /\ DOMAIN graph = SourceIds(lines)
        /\ \A source \in SourceIds(lines) \cup {<<"A">>, <<"B">>, <<"C">>} :
             /\ Get(graph, source, <<>>) = EdgeTargets(lines, source)
             /\ get_next_nodes(graph, source) = EdgeTargets(lines, source)

\* two edge lines A --> B were read and both are kept, after an edge B --> A
C29_Witness ==
    /\ Parsing
    /\ Len(lines) = 3
    /\ Get(graph, <<"A">>, <<>>) = << <<"B">>, <<"B">> >>
    /\ Get(graph, <<"B">>, <<>>) = << <<"A">> >>
    /\ get_next_nodes(graph, <<"A">>) = << <<"B">>, <<"B">> >>

\* the positions of character c in s
PositionsOf(s, c) == {i \in 1..Len(s) : s[i] = c}

Least(S) == CHOOSE i \in S : \A j \in S : i <= j

Greatest(S) == CHOOSE i \in S : \A j \in S : j <= i

\* ID and L of a fragment ID[L]
IdOf(frag) == Strip(SubSeq(frag, 1, Least(PositionsOf(frag, "[")) - 1))

LabelOf(frag) ==
    LET open == Least(PositionsOf(frag, "["))
        close == Least({i \in PositionsOf(frag, "]") : i > open})
    IN  Strip(SubSeq(frag, open + 1, close - 1))

\* the text after the arrow of an edge line
TargetText(line) ==
    LET at == Least({i \in 1..Len(line) : OccursAt(line, Arrow, i)})
    IN  SubSeq(line, at + Len(Arrow), Len(line))

\* the text before the arrow, reduced to the id
SourceId(line) ==
    LET at == Least({i \in 1..Len(line) : OccursAt(line, Arrow, i)})
        frag == SubSeq(line, 1, at - 1)
    IN  IF PositionsOf(frag, "[") = {} THEN Strip(frag) ELSE IdOf(frag)

\* C30: an edge line whose target fragment is |c| ID[L] records the label
\* "after user c: L" for ID, the id being taken from the text after the last
\* pipe, and appends the bare id ID to the source's sequence; an edge line
\* without pipes records the plain label L.
C30_ConditionInLabel ==
    [][ \A raw \in ParsePool :
          (ReadLine(raw) /\ IsEdgeLine(raw)) =>
              LET tf == TargetText(raw)
                  pipes == PositionsOf(tf, "|")
                  reduced == IF pipes = {} THEN tf
                             ELSE SubSeq(tf, Greatest(pipes) + 1, Len(tf))
              IN  /\ Cardinality(pipes) >= 2 =>
                        LET c == Strip(SubSeq(tf, Least(pipes) + 1,
                                              Least(pipes \ {Least(pipes)}) - 1))
                        IN  Get(node_labels', IdOf(reduced), <<>>) =
                                AfterUser \o c \o ColonSpace \o LabelOf(reduced)
                  /\ (pipes = {} /\ PositionsOf(tf, "[") # {}) =>
                        Get(node_labels', IdOf(tf), <<>>) = LabelOf(tf)
                  /\ PositionsOf(reduced, "[") # {} =>
                        Get(graph', SourceId(raw), <<>>) =
                            Append(Get(graph, SourceId(raw), <<>>), IdOf(reduced))
      ]_vars

\* the line A-->|c|d|B[V] was read: B is labelled with the first condition
C30_Witness ==
    /\ Parsing
    /\ Len(lines) = 2
    /\ lines[2] = <<"A", "-", "-", ">", "|", "c", "|", "d", "|", "B", "[", "V", "]">>
    /\ Get(node_labels, <<"B">>, <<>>) =
           <<"a", "f", "t", "e", "r", " ", "u", "s", "e", "r", " ", "c", ":", " ", "V">>
    /\ Get(graph, <<"A">>, <<>>)[Len(Get(graph, <<"A">>, <<>>))] = <<"B">>

----------------------------------------------------------------------------
(* C31: the history of a StatePlannerAgent is a walk of its graph *)

\* visited is a walk of g from the start node chosen at initialisation to cur
IsWalk(visited, g, cur) ==
    /\ visited # <<>>
    /\ visited[1] = find_start_node(g)
    /\ visited[Len(visited)] = cur
    /\ \A i \in 1..(Len(visited) - 1) :
          \E k \in 1..Len(g.edges) :
             g.edges[k].from = visited[i] /\ g.edges[k].to = visited[i + 1]

----------------------------------------------------------------------------
(* C32: the progress returned by successful transitions *)

\* the step is a successful transition_to of the agent
SpMoved == SpReady /\ visited_nodes' # visited_nodes /\ sp_result'.kind = "moved"

----------------------------------------------------------------------------
(* C33: get_possible_transitions and transition_to agree *)

\* the ids of the target_node entries get_possible_transitions returns
ListedIds ==
    LET l == PossibleFrom(G.edges, G.nodes, current_state)
    IN  {l[i].target_node : i \in 1..Len(l)}

\* the current node has an edge to n and n is not a node of the graph
DanglingTarget(n) ==
    /\ n \in SpTargets(G, current_state)
    /\ n \notin Range(G.nodes)

\* C33: in every state with a current node, transition_to(n) succeeds if and
\* only if n is the id of a target_node listed by get_possible_transitions;
\* when it does not succeed the graph, the current node and the history are
\* unchanged; an edge to an id that is no node is left out of the listing
\* and the transition to it is rejected with "Target node not found".
C33_ListingAgreesWithCheck ==
    [][\A n \in NodeIds :
         (SpReady /\ transition_to(n)) =>
            /\ sp_result'.kind = "moved" <=> n \in ListedIds
            /\ n \notin ListedIds =>
                  /\ sp_result'.kind = "error"
                  /\ UNCHANGED <<sp_graph, current_state, visited_nodes>>
            /\ DanglingTarget(n) =>
                  /\ n \notin ListedIds
                  /\ sp_result'.kind = "error"
                  /\ sp_result'.error = "Target node not found"]_vars

\* a transition along an edge whose target is no node was just rejected,
\* while another edge of the current node is listed
C33_Witness ==
    /\ SpReady
    /\ sp_result.kind = "error"
    /\ sp_result.error = "Target node not found"
    /\ DanglingTarget(sp_result.to)
    /\ ListedIds # {}

----------------------------------------------------------------------------
(* C34: calls before initialisation *)

NotInitializedError == "No current state, graph not initialized"

\* C34: while the planner has no current node, get_current_state,
\* get_possible_transitions and transition_to return the error value, and
\* while the system is not initialised process_user_input returns its error
\* value; each of these calls leaves current_state unset, visited_nodes
\* empty, the graph unset and the chat dialogue history as it was (empty).
C34_RejectedWithoutEffect ==
    [][/\ (/\ program = "mygo"
           /\ current_state = None
           /\ \/ get_current_state
              \/ get_possible_transitions
              \/ \E n \in NodeIds \cup {"subtask_1"} : transition_to(n))
          => /\ sp_result' = [kind |-> "error", error |-> NotInitializedError]
             /\ UNCHANGED <<sp_graph, current_state, visited_nodes,
                            initialized, dialogue_history>>
       /\ (/\ program = "mygo"
           /\ ~initialized
           /\ \E m \in MsgPool : process_user_input(m))
          => /\ sys_result' = [kind |-> "error",
                               error |-> "System not initialized with task"]
             /\ UNCHANGED <<sp_graph, current_state, visited_nodes,
                            initialized, dialogue_history>>
             /\ current_state' = None
             /\ visited_nodes' = <<>>
             /\ dialogue_history' = <<>>]_vars

\* both kinds of call were made before the initialisation
C34_Witness ==
    /\ program = "mygo"
    /\ ~initialized
    /\ sp_result = [kind |-> "error", error |-> NotInitializedError]
    /\ sys_result.kind = "error"
    /\ current_state = None
    /\ visited_nodes = <<>>
    /\ dialogue_history = <<>>

----------------------------------------------------------------------------
(* C35: previous_state of a turn *)

\* the last turn decided a transition and the planner carried it out
TurnMoved ==
    /\ SysTurn
    /\ sys_result.decision.decision = "transition"
    /\ sys_result.new_state.kind = "moved"

\* C35: after a turn whose transition succeeded, previous_state's
\* visited_nodes is one element shorter than new_state's visited_nodes and
\* is the history without the element the transition appended.
C35_PreviousStateIsSnapshot ==
    TurnMoved =>
        LET before == sys_result.previous_state.visited_nodes
            after == sys_result.new_state.visited_nodes
        IN  /\ Len(before) = Len(after) - 1
            /\ before = SubSeq(after, 1, Len(after) - 1)

----------------------------------------------------------------------------
(* C36: the built-in graph under user inputs alone *)

\* C36: once a MyGOSystem is initialised with its built-in graph, for every
\* sequence of user inputs the current node is subtask_1 and visited_nodes
\* is [subtask_1], every turn's decision is stay at subtask_1, and neither
\* the Farewell node (subtask_7) nor the end decision is reached.
C36_NeverLeavesStart ==
    (program = "mygo" /\ initialized) =>
        /\ sp_graph = <<BuiltinGraph>>
        /\ "greeting" \in NameOf(BuiltinGraph, "subtask_1")
        /\ "farewell" \in NameOf(BuiltinGraph, "subtask_7")
        /\ current_state = "subtask_1"
        /\ visited_nodes = <<"subtask_1">>
        /\ "subtask_7" \notin Range(visited_nodes)
        /\ SysTurn =>
              /\ sys_result.decision =
                     [decision |-> "stay", current_node_id |-> "subtask_1"]
              /\ sys_result.new_state.current_node = "subtask_1"
              /\ sys_result.new_state.visited_nodes = <<"subtask_1">>

\* the inputs of the turns so far carried the cues of the collect and of the
\* confirm rule
C36_Witness ==
    /\ SysTurn
    /\ Len(dialogue_history) >= 4
    /\ dialogue_history[1].content = {"name"}
    /\ dialogue_history[3].content = {"contact", "proceed"}
    /\ current_state = "subtask_1"

----------------------------------------------------------------------------
(* C37: decisions at a node without possible transitions *)

\* the node the last turn was decided at
DecidedAt == sys_result.previous_state.current_node

\* C37: a turn decided at a node without possible transitions decides stay;
\* a turn that decides end was decided at a node whose name contains
\* "farewell" and that has at least one possible transition.
C37_EmptyTransitionsStay ==
    SysTurn =>
        /\ ListedTargets(G, DecidedAt) = {}
              => sys_result.decision.decision = "stay"
        /\ sys_result.decision.decision = "end"
              => /\ "farewell" \in NameOf(G, DecidedAt)
                 /\ ListedTargets(G, DecidedAt) # {}

\* a turn at a farewell node without outgoing edges decided stay
C37_Witness ==
    /\ SysTurn
    /\ "farewell" \in NameOf(G, DecidedAt)
    /\ ListedTargets(G, DecidedAt) = {}
    /\ sys_result.decision.decision = "stay"

----------------------------------------------------------------------------
(* C38: the start node of the two planners when every node is a target *)

\* the ids that are the target of some edge of a StatePlannerAgent graph
EdgeTargetIds(g) == {g.edges[i].to : i \in 1..Len(g.edges)}

\* node is the first node of g, in declaration order, no edge leads to
FirstWithoutIncoming(g, node) ==
    \E i \in 1..Len(g.nodes) :
       /\ g.nodes[i] = node
       /\ node \notin EdgeTargetIds(g)
       /\ \A j \in 1..(i - 1) : g.nodes[j] \in EdgeTargetIds(g)

\* C38: initialize_with_graph on a graph with a non-empty node list sets a
\* current node of the node list: the first node in declaration order that
\* is the target of no edge or, when every node is the target of some edge,
\* the first node of the list.  The construction of a DialoguePlanner on a
\* mapping in which every node is an edge target raises IndexError and
\* selects no node.
C38_StartNodeOrFailure ==
    [][/\ (/\ program = "mygo"
           /\ sp_graph = <<>>
           /\ sp_graph' # <<>>
           /\ Len(sp_graph'[1].nodes) > 0)
          => LET g == sp_graph'[1]
             IN  /\ current_state' \in Range(g.nodes)
                 /\ IF Range(g.nodes) \subseteq EdgeTargetIds(g)
                    THEN current_state' = g.nodes[1]
                    ELSE FirstWithoutIncoming(g, current_state')
       /\ (/\ program = "dialogue"
           /\ DialoguePlannerInit
           /\ all_nodes(graph) \subseteq destination_nodes(graph))
          => /\ dp_result' = [kind |-> "raise", error |-> "IndexError"]
             /\ pc' = "error"
             /\ current_node' = NoNode]_vars

\* a planner initialised on a cycle through all of its nodes stands at the
\* first node of the list
C38_Witness ==
    /\ SpReady
    /\ Len(G.nodes) = 2
    /\ Range(G.nodes) \subseteq EdgeTargetIds(G)
    /\ current_state = G.nodes[1]
    /\ visited_nodes = <<G.nodes[1]>>

----------------------------------------------------------------------------
(* C39: the memory of an Agent *)

\* the last n elements of s, all of s when it is shorter
LastItems(s, n) ==
    IF Len(s) <= n THEN s ELSE SubSeq(s, Len(s) - n + 1, Len(s))

\* C39: after any sequence of add_to_memory and clear_memory calls on an
\* Agent with max_memory_size m >= 1, the memory holds at most m items, and
\* they are the most recently added items since the last clear, in the order
\* of their insertion.
C39_BoundedFifo ==
    (program = "agent" /\ max_memory_size >= 1) =>
        /\ Len(memory) <= max_memory_size
        /\ memory = LastItems(added, max_memory_size)

\* two items were evicted after a clear, and the memory holds the two newer
\* ones, which differ
C39_Witness ==
    /\ program = "agent"
    /\ max_memory_size = 2
    /\ Len(added) = 4
    /\ memory = <<added[3], added[4]>>
    /\ added[3] # added[4]
    /\ added[1] # added[3]
====
